---- MODULE Spec2Model ----
(***************************************************************************)
(* Resilient inference orchestration layer of the ticket classifier:       *)
(* output validation (src/src/patterns.py, src/scripts/modules.py), retry  *)
(* with exponential backoff, primary/fallback switching, weighted ensemble *)
(* voting and reward-driven refinement.                                    *)
(*                                                                         *)
(* Strings are sequences of characters; a character is a one-symbol atom   *)
(* ("a", "H", " "), the accented letter e-acute being the atom "e_acute"   *)
(* (upper case "E_ACUTE") and the tabulation the atom "TAB".               *)
(***************************************************************************)
EXTENDS Integers, Sequences, FiniteSets, TLC

\* ------------------------------------------------------------------------
\* Strings: str.lower(), str.strip(), the `in` substring test
\* ------------------------------------------------------------------------

UpperChars ==
    <<"A", "B", "C", "D", "E", "F", "G", "H", "I", "J", "K", "L", "M",
      "N", "O", "P", "Q", "R", "S", "T", "U", "V", "W", "X", "Y", "Z",
      "E_ACUTE">>

LowerChars ==
    <<"a", "b", "c", "d", "e", "f", "g", "h", "i", "j", "k", "l", "m",
      "n", "o", "p", "q", "r", "s", "t", "u", "v", "w", "x", "y", "z",
      "e_acute">>

SpaceChars ==
    {" ", "TAB"}

\* each upper-case character's lower-case character, and the reverse
LowerOf ==
    [c \in {UpperChars[i] : i \in 1..Len(UpperChars)} |->
        LowerChars[CHOOSE i \in 1..Len(UpperChars) : UpperChars[i] = c]]

UpperOf ==
    [c \in {LowerChars[i] : i \in 1..Len(LowerChars)} |->
        UpperChars[CHOOSE i \in 1..Len(LowerChars) : LowerChars[i] = c]]

LowerChar(c) ==
    IF c \in DOMAIN LowerOf THEN LowerOf[c] ELSE c

UpperChar(c) ==
    IF c \in DOMAIN UpperOf THEN UpperOf[c] ELSE c

\* str.lower()
Lower(s) ==
    [i \in 1..Len(s) |-> LowerChar(s[i])]

\* str.upper()
Upper(s) ==
    [i \in 1..Len(s) |-> UpperChar(s[i])]

RECURSIVE LStrip(_)
LStrip(s) ==
    IF s # <<>> /\ Head(s) \in SpaceChars THEN LStrip(Tail(s)) ELSE s

RECURSIVE RStrip(_)
RStrip(s) ==
    IF s # <<>> /\ s[Len(s)] \in SpaceChars
    THEN RStrip(SubSeq(s, 1, Len(s) - 1))
    ELSE s

\* str.strip()
Strip(s) ==
    RStrip(LStrip(s))

\* Python's `sub in s` on strings
Contains(sub, s) ==
    \E i \in 0..(Len(s) - Len(sub)) : SubSeq(s, i + 1, i + Len(sub)) = sub

\* ------------------------------------------------------------------------
\* Vocabulary (data.py) and the literals of the heuristics (patterns.py)
\* ------------------------------------------------------------------------

sHardware ==
    <<"H", "a", "r", "d", "w", "a", "r", "e">>

sSoftware ==
    <<"S", "o", "f", "t", "w", "a", "r", "e">>

sNetwork ==
    <<"N", "e", "t", "w", "o", "r", "k">>

sApplication ==
    <<"A", "p", "p", "l", "i", "c", "a", "t", "i", "o", "n">>

sInfrastructure ==
    <<"I", "n", "f", "r", "a", "s", "t", "r", "u", "c", "t", "u", "r", "e">>

sAccount ==
    <<"A", "c", "c", "o", "u", "n", "t">>

sEmail ==
    <<"E", "m", "a", "i", "l">>

sPeripherals ==
    <<"P", "e", "r", "i", "p", "h", "e", "r", "a", "l", "s">>

sLow ==
    <<"L", "o", "w">>

sMedium ==
    <<"M", "e", "d", "i", "u", "m">>

sHigh ==
    <<"H", "i", "g", "h">>

sUrgent ==
    <<"U", "r", "g", "e", "n", "t">>

sCritical ==
    <<"C", "r", "i", "t", "i", "c", "a", "l">>

k_hard ==
    <<"h", "a", "r", "d">>

k_mater ==
    <<"m", "a", "t", "e_acute", "r">>

k_soft ==
    <<"s", "o", "f", "t">>

k_logic ==
    <<"l", "o", "g", "i", "c">>

k_reseau ==
    <<"r", "e_acute", "s", "e", "a", "u">>

k_network ==
    <<"n", "e", "t", "w", "o", "r", "k">>

k_compte ==
    <<"c", "o", "m", "p", "t", "e">>

k_account ==
    <<"a", "c", "c", "o", "u", "n", "t">>

k_critic ==
    <<"c", "r", "i", "t", "i", "c">>

k_critique ==
    <<"c", "r", "i", "t", "i", "q", "u", "e">>

k_urgent ==
    <<"u", "r", "g", "e", "n", "t">>

k_high ==
    <<"h", "i", "g", "h">>

k_haut ==
    <<"h", "a", "u", "t">>

k_medium ==
    <<"m", "e", "d", "i", "u", "m">>

k_moyen ==
    <<"m", "o", "y", "e", "n">>

k_netwrk ==
    <<"n", "e", "t", "w", "r", "k">>

k_urgnt ==
    <<"u", "r", "g", "n", "t">>

k_xyz ==
    <<"x", "y", "z">>

CATEGORIES ==
    <<sHardware, sSoftware, sNetwork, sApplication, sInfrastructure, sAccount, sEmail, sPeripherals>>

PRIORITIES ==
    <<sLow, sMedium, sHigh, sUrgent, sCritical>>

\* ------------------------------------------------------------------------
\* Bounds of the model
\* ------------------------------------------------------------------------

\* whitespace characters put before and after a raw field
MaxPad == 1

\* largest max_retries a RetryTicketClassifier is built with
MaxRetries == 4

\* largest initial_delay (in clock ticks)
MaxInitialDelay == 2

\* largest number of (model, weight) pairs of an ensemble
MaxModels == 3

\* largest N a RefinedTicketClassifier is built with
MaxN == 3

\* ------------------------------------------------------------------------
\* State
\* ------------------------------------------------------------------------

VARIABLES
    \* ValidatedTicketClassifier.forward: position, the classifier's outcome,
    \* what forward returned or raised, what validate_and_correct returns
    \* for the pair it returned
    vpc, vraw, vresult, vagain,
    \* RetryTicketClassifier: the two fields, the position in forward, the loop
    \* variable, last_error, delay, the time, every classifier invocation
    \* (attempt, start, end, outcome), every printed report, every sleep,
    \* what forward returned or raised
    max_retries, initial_delay, rpc, attempt, last_error, delay, clock,
    rcalls, reports, sleeps, retry_out,
    \* FallbackTicketClassifier.forward: position, every predictor invocation
    \* (model, outcome), the printed errors, what forward returned or raised
    fpc, fcalls, flog, fallback_out,
    \* EnsembleTicketClassifier: the weights of self.models, the position in
    \* forward, the predictions list, each asked member's outcome, what
    \* forward returned or raised
    models, epc, predictions, eoutcomes, ensemble_out,
    \* RefinedTicketClassifier: N and threshold, the engine's position, the
    \* attempts made, the kept best attempt and its reward, every attempt
    \* (outcome, reward), the last error, what forward returned or raised
    N, threshold, qpc, qidx, best_pred, best_reward, qattempts, q_error,
    refined_out,
    \* scripts/modules.py on one prediction: position, the prediction handed
    \* to _reward_function or returned by ValidatedClassifier's classifier,
    \* what ValidatedClassifier.forward returned or raised, the score
    \* _reward_function returned (in tenths)
    mpc, mprediction, mresult, score

vvars == <<vpc, vraw, vresult, vagain>>

rvars == <<max_retries, initial_delay, rpc, attempt, last_error, delay, clock,
           rcalls, reports, sleeps, retry_out>>

fvars == <<fpc, fcalls, flog, fallback_out>>

evars == <<models, epc, predictions, eoutcomes, ensemble_out>>

qvars == <<N, threshold, qpc, qidx, best_pred, best_reward, qattempts,
           q_error, refined_out>>

mvars == <<mpc, mprediction, mresult, score>>

vars == <<vvars, rvars, fvars, evars, qvars, mvars>>

\* Python's None
None == [kind |-> "None"]

\* the exceptions the classification operation can raise
Errors ==
    {[kind |-> "Exception", type |-> "TimeoutError"],
     [kind |-> "Exception", type |-> "ConnectionError"]}

\* ------------------------------------------------------------------------
\* ValidatedTicketClassifier (src/src/patterns.py)
\* ------------------------------------------------------------------------

\* self.valid_categories = set(cat.lower() for cat in CATEGORIES)
valid_categories ==
    {Lower(CATEGORIES[i]) : i \in 1..Len(CATEGORIES)}

\* self.valid_priorities = set(pri.lower() for pri in PRIORITIES)
valid_priorities ==
    {Lower(PRIORITIES[i]) : i \in 1..Len(PRIORITIES)}

\* next(c for c in vocabulary if c.lower() == lowered): the first match in
\* list order; StopIteration when the generator is exhausted
NextCanonical(vocabulary, lowered) ==
    LET hits == {i \in 1..Len(vocabulary) : Lower(vocabulary[i]) = lowered}
    IN  IF hits = {}
        THEN [raised |-> TRUE, value |-> <<>>]
        ELSE [raised |-> FALSE,
              value |-> vocabulary[CHOOSE i \in hits : \A j \in hits : i <= j]]

\* a category in the vocabulary is returned stripped, in the casing it came in
ValidateCategory_KeepsCasing(category) ==
    LET category_lower == Lower(Strip(category))
    IN  IF category_lower \notin valid_categories
        THEN [raised |-> FALSE, value |-> sApplication, ok |-> FALSE]
        ELSE [raised |-> FALSE, value |-> Strip(category), ok |-> TRUE]

\* the default branch flags the category but leaves it as received
ValidateCategory_NoDefault(category) ==
    LET category_lower == Lower(Strip(category))
    IN  IF category_lower \notin valid_categories
        THEN IF Contains(k_hard, category_lower) \/ Contains(k_mater, category_lower)
             THEN [raised |-> FALSE, value |-> sHardware, ok |-> TRUE]
             ELSE IF Contains(k_soft, category_lower) \/ Contains(k_logic, category_lower)
             THEN [raised |-> FALSE, value |-> sSoftware, ok |-> TRUE]
             ELSE IF Contains(k_reseau, category_lower) \/ Contains(k_network, category_lower)
             THEN [raised |-> FALSE, value |-> sNetwork, ok |-> TRUE]
             ELSE IF Contains(k_compte, category_lower) \/ Contains(k_account, category_lower)
             THEN [raised |-> FALSE, value |-> sAccount, ok |-> TRUE]
             ELSE [raised |-> FALSE, value |-> category, ok |-> FALSE]
        ELSE LET c == NextCanonical(CATEGORIES, category_lower)
             IN  [raised |-> c.raised, value |-> c.value, ok |-> TRUE]

\* the Software rule tried before the Hardware rule
ValidateCategory_SoftwareFirst(category) ==
    LET category_lower == Lower(Strip(category))
    IN  IF category_lower \notin valid_categories
        THEN IF Contains(k_soft, category_lower) \/ Contains(k_logic, category_lower)
             THEN [raised |-> FALSE, value |-> sSoftware, ok |-> TRUE]
             ELSE IF Contains(k_hard, category_lower) \/ Contains(k_mater, category_lower)
             THEN [raised |-> FALSE, value |-> sHardware, ok |-> TRUE]
             ELSE IF Contains(k_reseau, category_lower) \/ Contains(k_network, category_lower)
             THEN [raised |-> FALSE, value |-> sNetwork, ok |-> TRUE]
             ELSE IF Contains(k_compte, category_lower) \/ Contains(k_account, category_lower)
             THEN [raised |-> FALSE, value |-> sAccount, ok |-> TRUE]
             ELSE [raised |-> FALSE, value |-> sApplication, ok |-> FALSE]
        ELSE LET c == NextCanonical(CATEGORIES, category_lower)
             IN  [raised |-> c.raised, value |-> c.value, ok |-> TRUE]

\* the category half of validate_and_correct: value, whether it leaves
\* is_valid untouched, whether it raised
ValidateCategory(category) ==
    LET category_lower == Lower(Strip(category))
    IN  IF category_lower \notin valid_categories
        THEN IF Contains(k_hard, category_lower) \/ Contains(k_mater, category_lower)
             THEN [raised |-> FALSE, value |-> sHardware, ok |-> TRUE]
             ELSE IF Contains(k_soft, category_lower) \/ Contains(k_logic, category_lower)
             THEN [raised |-> FALSE, value |-> sSoftware, ok |-> TRUE]
             ELSE IF Contains(k_reseau, category_lower) \/ Contains(k_network, category_lower)
             THEN [raised |-> FALSE, value |-> sNetwork, ok |-> TRUE]
             ELSE IF Contains(k_compte, category_lower) \/ Contains(k_account, category_lower)
             THEN [raised |-> FALSE, value |-> sAccount, ok |-> TRUE]
             ELSE [raised |-> FALSE, value |-> sApplication, ok |-> FALSE]
        ELSE LET c == NextCanonical(CATEGORIES, category_lower)
             IN  [raised |-> c.raised, value |-> c.value, ok |-> TRUE]

\* the exact match of the priority made without lower-casing the raw field
ValidatePriority_CaseSensitive(priority) ==
    LET priority_lower == Strip(priority)
    IN  IF priority_lower \notin valid_priorities
        THEN IF Contains(k_critic, priority_lower) \/ Contains(k_critique, priority_lower)
             THEN [raised |-> FALSE, value |-> sCritical, ok |-> TRUE]
             ELSE IF Contains(k_urgent, priority_lower)
             THEN [raised |-> FALSE, value |-> sUrgent, ok |-> TRUE]
             ELSE IF Contains(k_high, priority_lower) \/ Contains(k_haut, priority_lower)
             THEN [raised |-> FALSE, value |-> sHigh, ok |-> TRUE]
             ELSE IF Contains(k_medium, priority_lower) \/ Contains(k_moyen, priority_lower)
             THEN [raised |-> FALSE, value |-> sMedium, ok |-> TRUE]
             ELSE [raised |-> FALSE, value |-> sLow, ok |-> FALSE]
        ELSE LET p == NextCanonical(PRIORITIES, priority_lower)
             IN  [raised |-> p.raised, value |-> p.value, ok |-> TRUE]

\* the default priority leaves is_valid untouched
ValidatePriority_DefaultValid(priority) ==
    LET priority_lower == Lower(Strip(priority))
    IN  IF priority_lower \notin valid_priorities
        THEN IF Contains(k_critic, priority_lower) \/ Contains(k_critique, priority_lower)
             THEN [raised |-> FALSE, value |-> sCritical, ok |-> TRUE]
             ELSE IF Contains(k_urgent, priority_lower)
             THEN [raised |-> FALSE, value |-> sUrgent, ok |-> TRUE]
             ELSE IF Contains(k_high, priority_lower) \/ Contains(k_haut, priority_lower)
             THEN [raised |-> FALSE, value |-> sHigh, ok |-> TRUE]
             ELSE IF Contains(k_medium, priority_lower) \/ Contains(k_moyen, priority_lower)
             THEN [raised |-> FALSE, value |-> sMedium, ok |-> TRUE]
             ELSE [raised |-> FALSE, value |-> sLow, ok |-> TRUE]
        ELSE LET p == NextCanonical(PRIORITIES, priority_lower)
             IN  [raised |-> p.raised, value |-> p.value, ok |-> TRUE]

\* the default priority of ValidatedClassifier (Medium) used here too
ValidatePriority_DefaultMedium(priority) ==
    LET priority_lower == Lower(Strip(priority))
    IN  IF priority_lower \notin valid_priorities
        THEN IF Contains(k_critic, priority_lower) \/ Contains(k_critique, priority_lower)
             THEN [raised |-> FALSE, value |-> sCritical, ok |-> TRUE]
             ELSE IF Contains(k_urgent, priority_lower)
             THEN [raised |-> FALSE, value |-> sUrgent, ok |-> TRUE]
             ELSE IF Contains(k_high, priority_lower) \/ Contains(k_haut, priority_lower)
             THEN [raised |-> FALSE, value |-> sHigh, ok |-> TRUE]
             ELSE IF Contains(k_medium, priority_lower) \/ Contains(k_moyen, priority_lower)
             THEN [raised |-> FALSE, value |-> sMedium, ok |-> TRUE]
             ELSE [raised |-> FALSE, value |-> sMedium, ok |-> FALSE]
        ELSE LET p == NextCanonical(PRIORITIES, priority_lower)
             IN  [raised |-> p.raised, value |-> p.value, ok |-> TRUE]

\* the priority half of validate_and_correct
ValidatePriority(priority) ==
    LET priority_lower == Lower(Strip(priority))
    IN  IF priority_lower \notin valid_priorities
        THEN IF Contains(k_critic, priority_lower) \/ Contains(k_critique, priority_lower)
             THEN [raised |-> FALSE, value |-> sCritical, ok |-> TRUE]
             ELSE IF Contains(k_urgent, priority_lower)
             THEN [raised |-> FALSE, value |-> sUrgent, ok |-> TRUE]
             ELSE IF Contains(k_high, priority_lower) \/ Contains(k_haut, priority_lower)
             THEN [raised |-> FALSE, value |-> sHigh, ok |-> TRUE]
             ELSE IF Contains(k_medium, priority_lower) \/ Contains(k_moyen, priority_lower)
             THEN [raised |-> FALSE, value |-> sMedium, ok |-> TRUE]
             ELSE [raised |-> FALSE, value |-> sLow, ok |-> FALSE]
        ELSE LET p == NextCanonical(PRIORITIES, priority_lower)
             IN  [raised |-> p.raised, value |-> p.value, ok |-> TRUE]

\* validate_and_correct(category, priority) -> (category, priority, is_valid)
validate_and_correct(category, priority) ==
    LET c == ValidateCategory(category)
        p == ValidatePriority(priority)
    IN  IF c.raised \/ p.raised
        THEN [kind |-> "raise", error |-> [kind |-> "Exception", type |-> "StopIteration"]]
        ELSE [kind |-> "return", category |-> c.value, priority |-> p.value,
              is_valid |-> (c.ok /\ p.ok)]

\* --- the raw strings the classification operation is taken to produce ---

\* n blanks, then n tabulations
Blanks(n) ==
    [i \in 1..n |-> " "]

Tabs(n) ==
    [i \in 1..n |-> "TAB"]

SeqRange(s) ==
    {s[i] : i \in 1..Len(s)}

\* every core as written and in upper case, bare and with 1..MaxPad blanks
\* in front and as many tabulations behind
Dress(cores) ==
    {Blanks(n) \o w \o Tabs(n) :
        n \in 0..MaxPad, w \in UNION {{c, Upper(c)} : c \in cores}}

\* one keyword of each category rule, in rule order
CategoryRuleWords ==
    <<k_hard, k_soft, k_reseau, k_compte>>

\* one keyword of each priority rule, in rule order
PriorityRuleWords ==
    <<k_critic, k_urgent, k_haut, k_moyen>>

\* two rule words joined by a blank, the word of the later rule first
WordPairs(words) ==
    {words[q[1]] \o <<" ">> \o words[q[2]] :
        q \in {r \in (1..Len(words)) \X (1..Len(words)) : r[1] > r[2]}}

RawCategories ==
    Dress(SeqRange(CATEGORIES)
          \cup {k_hard, k_mater, k_soft, k_logic, k_reseau, k_network,
                k_compte, k_account}
          \cup WordPairs(CategoryRuleWords)
          \cup {k_netwrk, k_xyz, <<>>})

RawPriorities ==
    Dress(SeqRange(PRIORITIES)
          \cup {k_critic, k_critique, k_urgent, k_high, k_haut, k_medium,
                k_moyen}
          \cup WordPairs(PriorityRuleWords)
          \cup {k_urgnt, k_xyz, <<>>})

\* what one call of the classification operation does: it returns a raw
\* (category, priority) pair or raises
Returned(c, p) ==
    [kind |-> "return", category |-> c, priority |-> p]

Raised(e) ==
    [kind |-> "raise", error |-> e]

\* --- ValidatedTicketClassifier.forward ---

IdleValidated ==
    /\ vpc = "idle"
    /\ vraw = None
    /\ vresult = None
    /\ vagain = None

\* result = self.classifier(ticket=ticket) returns; validate_and_correct;
\* return dspy.Prediction(category, priority, is_valid)
ValidatedForward ==
    /\ vpc = "call"
    /\ vraw.kind = "return"
    /\ vresult' = validate_and_correct(vraw.category, vraw.priority)
    /\ vpc' = "done"
    /\ UNCHANGED <<vraw, vagain, rvars, fvars, evars, qvars, mvars>>

\* validate_and_correct applied to the category and priority it returned
ValidateAgain ==
    /\ vpc = "done"
    /\ vresult.kind = "return"
    /\ vagain' = validate_and_correct(vresult.category, vresult.priority)
    /\ vpc' = "again"
    /\ UNCHANGED <<vraw, vresult, rvars, fvars, evars, qvars, mvars>>

\* self.classifier(ticket=ticket) raises: forward has no handler
ValidatedForwardRaises ==
    /\ vpc = "call"
    /\ vraw.kind = "raise"
    /\ vresult' = vraw
    /\ vpc' = "done"
    /\ UNCHANGED <<vraw, vagain, rvars, fvars, evars, qvars, mvars>>

\* the raw pairs the classification operation returns to the wrappers below:
\* canonical, in vocabulary but not canonically spelled, out of vocabulary
OpCategories ==
    {sHardware, Lower(sNetwork), k_netwrk}

OpPriorities ==
    {sUrgent, k_urgnt}

\* how long one call of the classification operation lasts (clock ticks)
OpDurations ==
    {0, 1}

\* ------------------------------------------------------------------------
\* RetryTicketClassifier (src/src/patterns.py)
\* ------------------------------------------------------------------------

IdleRetry ==
    /\ max_retries = 0
    /\ initial_delay = 0
    /\ rpc = "idle"
    /\ attempt = 0
    /\ last_error = None
    /\ delay = 0
    /\ clock = 0
    /\ rcalls = <<>>
    /\ reports = <<>>
    /\ sleeps = <<>>
    /\ retry_out = None

\* __init__(max_retries, initial_delay), then forward entered:
\* last_error = None, the for loop about to take its first value
InitRetry ==
    /\ max_retries \in (-1)..MaxRetries
    /\ initial_delay \in 0..MaxInitialDelay
    /\ rpc = "loop"
    /\ attempt = 0
    /\ last_error = None
    /\ delay = 0
    /\ clock = 0
    /\ rcalls = <<>>
    /\ reports = <<>>
    /\ sleeps = <<>>
    /\ retry_out = None

\* the loop runs over range(max_retries + 1)
InRange_Inclusive(a, n) ==
    a <= n

\* for attempt in range(self.max_retries): the loop has a next value
InRange(a, n) ==
    a < n

\* the break one attempt too early
IsLastAttempt_OneEarly(a, n) ==
    a = n - 2

\* if attempt == self.max_retries - 1: break
IsLastAttempt(a, n) ==
    a = n - 1

\* the exponent taken from the 1-indexed attempt number
Backoff_OneIndexed(initial, a) ==
    initial * (2 ^ (a + 1))

\* delay = self.initial_delay * (2 ** attempt)
Backoff(initial, a) ==
    initial * (2 ^ a)

\* only the first error is remembered
RememberError_First(previous, e) ==
    IF previous = None THEN e ELSE previous

\* last_error = e
RememberError(previous, e) ==
    e

\* attempts reported as the 0-indexed loop variable
RetryPrediction_ZeroIndexed(result, a) ==
    [kind |-> "return", category |-> result.category,
     priority |-> result.priority, attempts |-> a]

\* dspy.Prediction(category=..., priority=..., attempts=attempt + 1)
RetryPrediction(result, a) ==
    [kind |-> "return", category |-> result.category,
     priority |-> result.priority, attempts |-> a + 1]

\* raise Exception(f"Failed after {self.max_retries} attempts: {last_error}")
RetryFailure(n, err) ==
    [kind |-> "raise", attempts |-> n, error |-> err]

\* one invocation of self.classifier, lasting d ticks, with its outcome
RetryCall(d, outcome) ==
    /\ rcalls' = Append(rcalls, [attempt |-> attempt + 1, start |-> clock,
                                 end |-> clock + d, outcome |-> outcome])
    /\ clock' = clock + d

\* the attempt succeeds: return the prediction
RetryAttemptReturns ==
    \E d \in OpDurations, c \in OpCategories, p \in OpPriorities :
        /\ rpc = "loop"
        /\ InRange(attempt, max_retries)
        /\ RetryCall(d, Returned(c, p))
        /\ retry_out' = RetryPrediction(Returned(c, p), attempt)
        /\ rpc' = "done"
        /\ UNCHANGED <<max_retries, initial_delay, attempt, last_error, delay,
                       reports, sleeps>>
        /\ UNCHANGED <<vvars, fvars, evars, qvars, mvars>>

\* the report prints the loop variable instead of attempt + 1
RetryAttemptRaises_ReportsLoopVariable ==
    \E d \in OpDurations, e \in Errors :
        /\ rpc = "loop"
        /\ InRange(attempt, max_retries)
        /\ RetryCall(d, Raised(e))
        /\ last_error' = RememberError(last_error, e)
        /\ IF IsLastAttempt(attempt, max_retries)
           THEN /\ retry_out' = RetryFailure(max_retries, last_error')
                /\ rpc' = "done"
                /\ UNCHANGED <<delay, reports>>
           ELSE /\ delay' = Backoff(initial_delay, attempt)
                /\ reports' = Append(reports,
                                     [attempt |-> attempt, error |-> e,
                                      delay |-> Backoff(initial_delay, attempt),
                                      at |-> clock + d])
                /\ rpc' = "sleep"
                /\ UNCHANGED retry_out
        /\ UNCHANGED <<max_retries, initial_delay, attempt, sleeps>>
        /\ UNCHANGED <<vvars, fvars, evars, qvars, mvars>>

\* the attempt raises: remember the error; on the last attempt break out of
\* the loop and raise, otherwise compute the delay, report, and go to sleep
RetryAttemptRaises ==
    \E d \in OpDurations, e \in Errors :
        /\ rpc = "loop"
        /\ InRange(attempt, max_retries)
        /\ RetryCall(d, Raised(e))
        /\ last_error' = RememberError(last_error, e)
        /\ IF IsLastAttempt(attempt, max_retries)
           THEN /\ retry_out' = RetryFailure(max_retries, last_error')
                /\ rpc' = "done"
                /\ UNCHANGED <<delay, reports>>
           ELSE /\ delay' = Backoff(initial_delay, attempt)
                /\ reports' = Append(reports,
                                     [attempt |-> attempt + 1, error |-> e,
                                      delay |-> Backoff(initial_delay, attempt),
                                      at |-> clock + d])
                /\ rpc' = "sleep"
                /\ UNCHANGED retry_out
        /\ UNCHANGED <<max_retries, initial_delay, attempt, sleeps>>
        /\ UNCHANGED <<vvars, fvars, evars, qvars, mvars>>

\* time.sleep(delay), then the loop takes its next value
RetrySleep ==
    /\ rpc = "sleep"
    /\ sleeps' = Append(sleeps, [after |-> attempt + 1, from |-> clock,
                                 to |-> clock + delay])
    /\ clock' = clock + delay
    /\ attempt' = attempt + 1
    /\ rpc' = "loop"
    /\ UNCHANGED <<max_retries, initial_delay, last_error, delay, rcalls,
                   reports, retry_out>>
    /\ UNCHANGED <<vvars, fvars, evars, qvars, mvars>>

\* the loop is exhausted without a break (range(max_retries) is empty when
\* max_retries <= 0): fall through to the raise
RetryLoopExhausted ==
    /\ rpc = "loop"
    /\ ~InRange(attempt, max_retries)
    /\ retry_out' = RetryFailure(max_retries, last_error)
    /\ rpc' = "done"
    /\ UNCHANGED <<max_retries, initial_delay, attempt, last_error, delay,
                   clock, rcalls, reports, sleeps>>
    /\ UNCHANGED <<vvars, fvars, evars, qvars, mvars>>

\* ------------------------------------------------------------------------
\* FallbackTicketClassifier (src/src/patterns.py)
\* ------------------------------------------------------------------------

IdleFallback ==
    /\ fpc = "idle"
    /\ fcalls = <<>>
    /\ flog = <<>>
    /\ fallback_out = None

\* forward entered: the primary model is tried first
InitFallback ==
    /\ fpc = "primary"
    /\ fcalls = <<>>
    /\ flog = <<>>
    /\ fallback_out = None

\* every prediction tagged as coming from the primary model
FallbackPrediction_AlwaysPrimary(result, model_used) ==
    [kind |-> "return", category |-> result.category,
     priority |-> result.priority, model_used |-> "primary"]

\* dspy.Prediction(category=..., priority=..., model_used=...)
FallbackPrediction(result, model_used) ==
    [kind |-> "return", category |-> result.category,
     priority |-> result.priority, model_used |-> model_used]

\* raise Exception(f"Both models failed. Fallback error: {fallback_error}")
\* `errors` are the errors the message interpolates
FallbackFailure(e, fallback_error) ==
    [kind |-> "raise", text |-> "Both models failed", errors |-> <<fallback_error>>]

\* the predictor under primary_lm returns
FallbackPrimaryReturns ==
    \E c \in OpCategories, p \in OpPriorities :
        /\ fpc = "primary"
        /\ fcalls' = Append(fcalls, [model |-> "primary", outcome |-> Returned(c, p)])
        /\ fallback_out' = FallbackPrediction(Returned(c, p), "primary")
        /\ fpc' = "done"
        /\ UNCHANGED flog
        /\ UNCHANGED <<vvars, rvars, evars, qvars, mvars>>

\* the primary model is tried again after its failure
FallbackPrimaryRaises_TriesAgain ==
    \E e \in Errors :
        /\ fpc = "primary"
        /\ fcalls' = Append(fcalls, [model |-> "primary", outcome |-> Raised(e)])
        /\ flog' = Append(flog, e)
        /\ fpc' = IF Len(fcalls) = 0 THEN "primary" ELSE "fallback"
        /\ UNCHANGED fallback_out
        /\ UNCHANGED <<vvars, rvars, evars, qvars, mvars>>

\* the predictor under primary_lm raises: print the error, switch
FallbackPrimaryRaises ==
    \E e \in Errors :
        /\ fpc = "primary"
        /\ fcalls' = Append(fcalls, [model |-> "primary", outcome |-> Raised(e)])
        /\ flog' = Append(flog, e)
        /\ fpc' = "fallback"
        /\ UNCHANGED fallback_out
        /\ UNCHANGED <<vvars, rvars, evars, qvars, mvars>>

\* the predictor under fallback_lm returns
FallbackSecondaryReturns ==
    \E c \in OpCategories, p \in OpPriorities :
        /\ fpc = "fallback"
        /\ fcalls' = Append(fcalls, [model |-> "fallback", outcome |-> Returned(c, p)])
        /\ fallback_out' = FallbackPrediction(Returned(c, p), "fallback")
        /\ fpc' = "done"
        /\ UNCHANGED flog
        /\ UNCHANGED <<vvars, rvars, evars, qvars, mvars>>

\* the predictor under fallback_lm raises too: both models failed
FallbackSecondaryRaises ==
    \E fallback_error \in Errors :
        /\ fpc = "fallback"
        /\ fcalls' = Append(fcalls, [model |-> "fallback",
                                     outcome |-> Raised(fallback_error)])
        /\ fallback_out' = FallbackFailure(fcalls[1].outcome.error, fallback_error)
        /\ fpc' = "done"
        /\ UNCHANGED flog
        /\ UNCHANGED <<vvars, rvars, evars, qvars, mvars>>

\* ------------------------------------------------------------------------
\* EnsembleTicketClassifier (src/src/patterns.py)
\* ------------------------------------------------------------------------

\* the weights a (model, weight) pair is given
Weights ==
    {0, 1, 2}

\* what an ensemble member's predictor returns
EnsembleResults ==
    {Returned(sHardware, sUrgent),
     Returned(Blanks(1) \o Upper(sHardware), k_urgnt),
     Returned(k_netwrk, Upper(sUrgent))}

\* what a failing member raises (the handler prints it and continues,
\* whatever it is)
EnsembleErrors ==
    {[kind |-> "Exception", type |-> "TimeoutError"]}

IdleEnsemble ==
    /\ models = <<>>
    /\ epc = "idle"
    /\ predictions = <<>>
    /\ eoutcomes = <<>>
    /\ ensemble_out = None

\* __init__(models) with the list of weights, then forward entered:
\* predictions = []
InitEnsemble ==
    /\ models \in UNION {[1..n -> Weights] : n \in 0..MaxModels}
    /\ epc = "loop"
    /\ predictions = <<>>
    /\ eoutcomes = <<>>
    /\ ensemble_out = None

\* one ballot per member, whatever its weight
Ballots_Unweighted(result, weight) ==
    [i \in 1..1 |-> [category |-> Lower(Strip(result.category)),
                     priority |-> Lower(Strip(result.priority))]]

\* for _ in range(weight): predictions.append({category: result.category
\* .strip().lower(), priority: result.priority.strip().lower()})
Ballots(result, weight) ==
    [i \in 1..weight |-> [category |-> Lower(Strip(result.category)),
                          priority |-> Lower(Strip(result.priority))]]

\* Counter(values)[v]
Count(values, v) ==
    Cardinality({i \in 1..Len(values) : values[i] = v})

\* among the values with the greatest count, the one met last
MostCommon_LastTie(values) ==
    LET top == {i \in 1..Len(values) :
                   \A j \in 1..Len(values) :
                       Count(values, values[j]) <= Count(values, values[i])}
    IN  values[CHOOSE i \in top : \A j \in top : i >= j]

\* the value of the first ballot instead of the most common value
MostCommon_First(values) ==
    values[1]

\* Counter(values).most_common(1)[0][0]: the first, in order of first
\* occurrence, of the values with the greatest count
MostCommon(values) ==
    LET top == {i \in 1..Len(values) :
                   \A j \in 1..Len(values) :
                       Count(values, values[j]) <= Count(values, values[i])}
    IN  values[CHOOSE i \in top : \A j \in top : i <= j]

\* next((c for c in vocabulary if c.lower() == winner), winner)
CanonicalOr(vocabulary, winner) ==
    LET c == NextCanonical(vocabulary, winner)
    IN  IF c.raised THEN winner ELSE c.value

\* the confidences divided by the number of configured members
EnsembleVote_ByMembers(preds, num_models) ==
    LET categories == [i \in 1..Len(preds) |-> preds[i].category]
        priorities == [i \in 1..Len(preds) |-> preds[i].priority]
        winning_category == MostCommon(categories)
        winning_priority == MostCommon(priorities)
    IN  [kind |-> "return",
         category |-> CanonicalOr(CATEGORIES, winning_category),
         priority |-> CanonicalOr(PRIORITIES, winning_priority),
         category_confidence |-> <<Count(categories, winning_category), num_models>>,
         priority_confidence |-> <<Count(priorities, winning_priority), num_models>>,
         num_models |-> num_models]

\* the vote over a non-empty list of predictions and the returned Prediction;
\* a confidence count / len(predictions) is kept as the pair <<count, len>>
EnsembleVote(preds, num_models) ==
    LET categories == [i \in 1..Len(preds) |-> preds[i].category]
        priorities == [i \in 1..Len(preds) |-> preds[i].priority]
        winning_category == MostCommon(categories)
        winning_priority == MostCommon(priorities)
    IN  [kind |-> "return",
         category |-> CanonicalOr(CATEGORIES, winning_category),
         priority |-> CanonicalOr(PRIORITIES, winning_priority),
         category_confidence |-> <<Count(categories, winning_category), Len(preds)>>,
         priority_confidence |-> <<Count(priorities, winning_priority), Len(preds)>>,
         num_models |-> num_models]

\* if not predictions: raise Exception("No model could make a prediction")
EnsembleFailure ==
    [kind |-> "raise", text |-> "No model could make a prediction"]

\* the next member's predictor returns: weight ballots are appended
EnsembleMemberReturns ==
    \E result \in EnsembleResults :
        /\ epc = "loop"
        /\ Len(eoutcomes) < Len(models)
        /\ predictions' = predictions \o Ballots(result, models[Len(eoutcomes) + 1])
        /\ eoutcomes' = Append(eoutcomes, result)
        /\ UNCHANGED <<models, epc, ensemble_out>>
        /\ UNCHANGED <<vvars, rvars, fvars, qvars, mvars>>

\* the next member's predictor raises: print the error, continue
EnsembleMemberRaises ==
    \E e \in EnsembleErrors :
        /\ epc = "loop"
        /\ Len(eoutcomes) < Len(models)
        /\ eoutcomes' = Append(eoutcomes, Raised(e))
        /\ UNCHANGED <<models, epc, predictions, ensemble_out>>
        /\ UNCHANGED <<vvars, rvars, fvars, qvars, mvars>>

\* every member was asked: raise when there is no ballot, otherwise vote
EnsembleFinish ==
    /\ epc = "loop"
    /\ Len(eoutcomes) = Len(models)
    /\ ensemble_out' = IF predictions = <<>>
                       THEN EnsembleFailure
                       ELSE EnsembleVote(predictions, Len(models))
    /\ epc' = "done"
    /\ UNCHANGED <<models, predictions, eoutcomes>>
    /\ UNCHANGED <<vvars, rvars, fvars, qvars, mvars>>

\* ------------------------------------------------------------------------
\* RefinedTicketClassifier (src/scripts/modules.py)
\* Rewards and thresholds are counted in tenths: 1.0 is 10, 0.5 is 5.
\* ------------------------------------------------------------------------

\* score += 0.5
HalfScore == 5

\* the thresholds a RefinedTicketClassifier is built with (1.0 by default)
Thresholds ==
    {HalfScore, 2 * HalfScore}

IdleRefined ==
    /\ N = 0
    /\ threshold = 0
    /\ qpc = "idle"
    /\ qidx = 0
    /\ best_pred = None
    /\ best_reward = 0
    /\ qattempts = <<>>
    /\ q_error = None
    /\ refined_out = None

\* __init__(N, threshold), then forward entered and self.refine called
InitRefined ==
    /\ N \in 1..MaxN
    /\ threshold \in Thresholds
    /\ qpc = "loop"
    /\ qidx = 0
    /\ best_pred = None
    /\ best_reward = 0
    /\ qattempts = <<>>
    /\ q_error = None
    /\ refined_out = None

\* hasattr(prediction, name)
hasattr(prediction, name) ==
    name \in DOMAIN prediction

\* the priority half of the reward granted to any priority that is present
reward_function_AnyPriority(prediction) ==
    (IF /\ hasattr(prediction, "category")
        /\ Lower(Strip(prediction.category)) \in valid_categories
     THEN HalfScore ELSE 0)
    + (IF hasattr(prediction, "priority") THEN HalfScore ELSE 0)

\* the reward computed without stripping the fields
reward_function_NoStrip(prediction) ==
    (IF /\ hasattr(prediction, "category")
        /\ Lower(prediction.category) \in valid_categories
     THEN HalfScore ELSE 0)
    + (IF /\ hasattr(prediction, "priority")
          /\ Lower(prediction.priority) \in valid_priorities
       THEN HalfScore ELSE 0)

\* _reward_function(args, prediction)
reward_function(prediction) ==
    (IF /\ hasattr(prediction, "category")
        /\ Lower(Strip(prediction.category)) \in valid_categories
     THEN HalfScore ELSE 0)
    + (IF /\ hasattr(prediction, "priority")
          /\ Lower(Strip(prediction.priority)) \in valid_priorities
       THEN HalfScore ELSE 0)

\* forward: dspy.Prediction(category=result.category, priority=result.priority)
RefinedPrediction(result) ==
    [kind |-> "return", category |-> result.category, priority |-> result.priority]

\* an equal reward replaces the kept best attempt too
ReplacesBest_OnTie(kept, kept_reward, reward) ==
    kept = None \/ reward >= kept_reward

\* the refinement engine (dspy.Refine): the kept best attempt is replaced on
\* the first attempt or by a strictly greater reward
ReplacesBest(kept, kept_reward, reward) ==
    kept = None \/ reward > kept_reward

\* the engine stops only above the threshold
EarlyStop_Strict(reward, bar) ==
    reward > bar

\* the engine stops early once the reward of an attempt reaches the threshold
EarlyStop(reward, bar) ==
    reward >= bar

\* the engine has made its N attempts
LastRefineAttempt(idx, n) ==
    idx + 1 = n

\* what the engine hands back when it stops: the kept best attempt, or the
\* last error when every attempt raised
RefineOutcome(kept, err) ==
    IF kept = None THEN Raised(err) ELSE RefinedPrediction(kept)

\* one attempt of the engine returns a prediction: score it, keep the best,
\* stop early or after the N-th attempt and let forward return
RefineAttemptReturns ==
    \E c \in OpCategories, p \in OpPriorities :
        LET pred == Returned(c, p)
            reward == reward_function(pred)
            replaces == ReplacesBest(best_pred, best_reward, reward)
            kept == IF replaces THEN pred ELSE best_pred
        IN  /\ qpc = "loop"
            /\ qidx < N
            /\ qattempts' = Append(qattempts, [outcome |-> pred, reward |-> reward])
            /\ best_pred' = kept
            /\ best_reward' = IF replaces THEN reward ELSE best_reward
            /\ qidx' = qidx + 1
            /\ IF EarlyStop(reward, threshold) \/ LastRefineAttempt(qidx, N)
               THEN /\ refined_out' = RefineOutcome(kept, q_error)
                    /\ qpc' = "done"
               ELSE UNCHANGED <<refined_out, qpc>>
            /\ UNCHANGED <<N, threshold, q_error>>
            /\ UNCHANGED <<vvars, rvars, fvars, evars, mvars>>

\* one attempt of the engine raises: it has no reward and is not kept
RefineAttemptRaises ==
    \E e \in Errors :
        /\ qpc = "loop"
        /\ qidx < N
        /\ qattempts' = Append(qattempts, [outcome |-> Raised(e), reward |-> None])
        /\ q_error' = e
        /\ qidx' = qidx + 1
        /\ IF LastRefineAttempt(qidx, N)
           THEN /\ refined_out' = RefineOutcome(best_pred, e)
                /\ qpc' = "done"
           ELSE UNCHANGED <<refined_out, qpc>>
        /\ UNCHANGED <<N, threshold, best_pred, best_reward>>
        /\ UNCHANGED <<vvars, rvars, fvars, evars, mvars>>

\* ------------------------------------------------------------------------
\* Specifications
\* ------------------------------------------------------------------------

\* ------------------------------------------------------------------------
\* scripts/modules.py on one prediction: ValidatedClassifier.forward and
\* RefinedTicketClassifier._reward_function
\* ------------------------------------------------------------------------

\* the raw fields of one prediction
ModuleCategories ==
    Dress(SeqRange(CATEGORIES) \cup {k_netwrk, <<>>})

ModulePriorities ==
    Dress(SeqRange(PRIORITIES) \cup {k_urgnt, <<>>})

\* a prediction object: both fields, one of them, or none
ModulePredictions ==
    {Returned(c, p) : c \in ModuleCategories, p \in ModulePriorities}
    \cup {[kind |-> "return", category |-> c] : c \in ModuleCategories}
    \cup {[kind |-> "return", priority |-> p] : p \in ModulePriorities}
    \cup {[kind |-> "return"]}

IdleModules ==
    /\ mpc = "idle"
    /\ mprediction = None
    /\ mresult = None
    /\ score = 0

InitModules ==
    /\ mpc = "call"
    /\ mprediction \in ModulePredictions
    /\ mresult = None
    /\ score = 0

\* ValidatedClassifier.forward after the classifier returned result: each
\* field stripped, replaced by the default when its lower-cased form is not
\* in the vocabulary
ValidatedClassifierPrediction(result) ==
    LET category == Strip(result.category)
        priority == Strip(result.priority)
    IN  [kind |-> "return",
         category |-> IF Lower(category) \notin valid_categories
                      THEN sApplication ELSE category,
         priority |-> IF Lower(priority) \notin valid_priorities
                      THEN sMedium ELSE priority]

\* ValidatedClassifier.forward on a prediction that has both fields
ValidatedClassifierForward ==
    /\ mpc = "call"
    /\ hasattr(mprediction, "category") /\ hasattr(mprediction, "priority")
    /\ mresult' = ValidatedClassifierPrediction(mprediction)
    /\ mpc' = "validated"
    /\ UNCHANGED <<mprediction, score>>
    /\ UNCHANGED <<vvars, rvars, fvars, evars, qvars>>

\* result.category or result.priority does not exist: AttributeError
ValidatedClassifierForwardRaises ==
    /\ mpc = "call"
    /\ ~(hasattr(mprediction, "category") /\ hasattr(mprediction, "priority"))
    /\ mresult' = Raised([kind |-> "Exception", type |-> "AttributeError"])
    /\ mpc' = "validated"
    /\ UNCHANGED <<mprediction, score>>
    /\ UNCHANGED <<vvars, rvars, fvars, evars, qvars>>

\* _reward_function(args, prediction) called on the prediction
RewardFunction ==
    /\ mpc = "call"
    /\ score' = reward_function(mprediction)
    /\ mpc' = "scored"
    /\ UNCHANGED <<mprediction, mresult>>
    /\ UNCHANGED <<vvars, rvars, fvars, evars, qvars>>

\* ------------------------------------------------------------------------
\* Specifications
\* ------------------------------------------------------------------------

\* a RetryTicketClassifier or a FallbackTicketClassifier is built and its
\* forward is called
Init ==
    \/ InitRetry /\ IdleValidated /\ IdleFallback /\ IdleEnsemble /\ IdleRefined
       /\ IdleModules
    \/ InitFallback /\ IdleValidated /\ IdleRetry /\ IdleEnsemble /\ IdleRefined
       /\ IdleModules

Next ==
    \/ RetryAttemptReturns
    \/ RetryAttemptRaises
    \/ RetrySleep
    \/ RetryLoopExhausted
    \/ FallbackPrimaryReturns
    \/ FallbackPrimaryRaises
    \/ FallbackSecondaryReturns
    \/ FallbackSecondaryRaises

Spec ==
    Init /\ [][Next]_vars

\* an EnsembleTicketClassifier is built and its forward is called
InitEnsembleOnly ==
    InitEnsemble /\ IdleValidated /\ IdleRetry /\ IdleFallback /\ IdleRefined
    /\ IdleModules

NextEnsemble ==
    \/ EnsembleMemberReturns
    \/ EnsembleMemberRaises
    \/ EnsembleFinish

SpecEnsemble ==
    InitEnsembleOnly /\ [][NextEnsemble]_vars

\* a RefinedTicketClassifier is built and its forward is called
InitRefinedOnly ==
    InitRefined /\ IdleValidated /\ IdleRetry /\ IdleFallback /\ IdleEnsemble
    /\ IdleModules

NextRefined ==
    \/ RefineAttemptReturns
    \/ RefineAttemptRaises

SpecRefined ==
    InitRefinedOnly /\ [][NextRefined]_vars

\* ValidatedTicketClassifier.forward on every raw pair the classification
\* operation is taken to produce
InitValidated ==
    /\ vpc = "call"
    /\ vraw \in {Returned(c, p) : c \in RawCategories, p \in RawPriorities}
                \cup {Raised(e) : e \in Errors}
    /\ vresult = None
    /\ vagain = None
    /\ IdleRetry /\ IdleFallback /\ IdleEnsemble /\ IdleRefined /\ IdleModules

NextValidated ==
    \/ ValidatedForward
    \/ ValidatedForwardRaises
    \/ ValidateAgain

SpecValidated ==
    InitValidated /\ [][NextValidated]_vars

\* ValidatedClassifier.forward and _reward_function on every prediction
InitModulesOnly ==
    InitModules /\ IdleValidated /\ IdleRetry /\ IdleFallback /\ IdleEnsemble
    /\ IdleRefined

NextModules ==
    \/ ValidatedClassifierForward
    \/ ValidatedClassifierForwardRaises
    \/ RewardFunction

SpecModules ==
    InitModulesOnly /\ [][NextModules]_vars

\* ------------------------------------------------------------------------
\* Properties
\* ------------------------------------------------------------------------

\* a returned prediction whose two fields are canonical vocabulary values
InVocabulary(r) ==
    /\ r.category \in SeqRange(CATEGORIES)
    /\ r.priority \in SeqRange(PRIORITIES)

\* every invocation of the classifier made so far by the retry loop raised
AllRetryCallsRaised ==
    \A i \in 1..Len(rcalls) : rcalls[i].outcome.kind = "raise"

\* C1: every result returned by RetryTicketClassifier.forward,
\* FallbackTicketClassifier.forward and RefinedTicketClassifier.forward has
\* its category in CATEGORIES and its priority in PRIORITIES, whatever raw
\* pair the classification operation produced.
C1_ReturnedResultsInVocabulary ==
    /\ retry_out.kind = "return" => InVocabulary(retry_out)
    /\ fallback_out.kind = "return" => InVocabulary(fallback_out)
    /\ refined_out.kind = "return" => InVocabulary(refined_out)

\* C2: with max_retries >= 1 one call of forward invokes the classifier at
\* most max_retries times; when every invocation raises, the classifier is
\* invoked exactly max_retries times and forward then ends by raising.
C2_RetryBound ==
    max_retries >= 1 =>
        /\ Len(rcalls) <= max_retries
        /\ (AllRetryCallsRaised /\ Len(rcalls) = max_retries) =>
               (rpc = "done" /\ retry_out.kind = "raise")
        /\ (AllRetryCallsRaised /\ rpc = "done") =>
               (Len(rcalls) = max_retries /\ retry_out.kind = "raise")

C2_Witness ==
    /\ max_retries = 3
    /\ Len(rcalls) = 3
    /\ AllRetryCallsRaised
    /\ rpc = "done"
    /\ retry_out.kind = "raise"

\* C3: EnsembleTicketClassifier.forward fails only if no member succeeds:
\* whatever the weights, once every member was asked and at least one of
\* them returned a result, forward returns a result.
C3_EnsembleFailsOnlyIfNoneSucceeds ==
    (epc = "done" /\ \E i \in 1..Len(eoutcomes) : eoutcomes[i].kind = "return")
        => ensemble_out.kind = "return"

\* C4: when the primary and the fallback both fail, the failure raised by
\* FallbackTicketClassifier.forward describes both causes: the primary's
\* error and the fallback's error are both in the raised message.
C4_FallbackFailureNamesBothCauses ==
    fallback_out.kind = "raise" =>
        \A i \in 1..Len(fcalls) :
            fcalls[i].outcome.error \in SeqRange(fallback_out.errors)

\* C8: the k-th sleep of forward follows the failure of attempt k with
\* k < max_retries, starts when that attempt ends and lasts exactly
\* initial_delay * 2^(k-1); attempt k+1 starts when that sleep is over, never
\* before; no sleep follows the failure of the last attempt.
C8_ExponentialBackoff ==
    /\ \A k \in 1..Len(sleeps) :
           /\ sleeps[k].after = k
           /\ k < max_retries
           /\ rcalls[k].outcome.kind = "raise"
           /\ sleeps[k].from = rcalls[k].end
           /\ sleeps[k].to = sleeps[k].from + initial_delay * (2 ^ (k - 1))
    /\ \A k \in 1..(Len(rcalls) - 1) :
           /\ k <= Len(sleeps)
           /\ rcalls[k + 1].start = rcalls[k].end + initial_delay * (2 ^ (k - 1))
           /\ rcalls[k + 1].start >= sleeps[k].to
    /\ rpc = "sleep" => delay = initial_delay * (2 ^ (Len(rcalls) - 1))
    /\ rpc \in {"loop", "sleep"} =>
           Len(sleeps) = Len(rcalls) - (IF rpc = "sleep" THEN 1 ELSE 0)
    /\ (rpc = "done" /\ Len(rcalls) >= 1) => Len(sleeps) = Len(rcalls) - 1

C8_Witness ==
    /\ max_retries = 4
    /\ initial_delay = 1
    /\ rpc = "done"
    /\ retry_out.kind = "raise"
    /\ Len(rcalls) = 4
    /\ Len(sleeps) = 3
    /\ sleeps[3].to - sleeps[3].from = 4

\* C9: when the classifier first returns on attempt k, after k-1 attempts
\* that raised, forward returns that attempt's category and priority with
\* attempts = k, 1 <= k <= max_retries, and invokes the classifier no more.
C9_SuccessAtAttemptK ==
    /\ \A i \in 1..Len(rcalls) :
           rcalls[i].outcome.kind = "return" =>
               /\ i = Len(rcalls)
               /\ rpc = "done"
               /\ retry_out.kind = "return"
    /\ retry_out.kind = "return" =>
           LET k == Len(rcalls)
           IN  /\ k >= 1
               /\ k <= max_retries
               /\ \A i \in 1..(k - 1) : rcalls[i].outcome.kind = "raise"
               /\ rcalls[k].outcome.kind = "return"
               /\ retry_out.attempts = k
               /\ retry_out.category = rcalls[k].outcome.category
               /\ retry_out.priority = rcalls[k].outcome.priority

C9_Witness ==
    /\ retry_out.kind = "return"
    /\ Len(rcalls) = 3
    /\ retry_out.attempts = 3
    /\ retry_out.category = k_netwrk

\* C10: when all max_retries >= 1 attempts raised, the failure raised by
\* forward carries the error of the last attempt, the max_retries-th, and
\* the attempt count max_retries.
C10_FailureCarriesLastError ==
    (retry_out.kind = "raise" /\ max_retries >= 1) =>
        /\ Len(rcalls) = max_retries
        /\ retry_out.attempts = max_retries
        /\ retry_out.error = rcalls[max_retries].outcome.error

C10_Witness ==
    /\ retry_out.kind = "raise"
    /\ max_retries = 3
    /\ Len(rcalls) = 3
    /\ rcalls[1].outcome.error # rcalls[3].outcome.error
    /\ rcalls[2].outcome.error # rcalls[3].outcome.error
    /\ retry_out.error = rcalls[3].outcome.error

\* the attempts of the refinement engine that returned a prediction
ReturnedAttempts ==
    {i \in 1..Len(qattempts) : qattempts[i].outcome.kind = "return"}

\* the attempts whose reward reaches the threshold
AttemptsAtThreshold ==
    {i \in ReturnedAttempts : qattempts[i].reward >= threshold}

\* the earliest of the returned attempts with the highest reward
EarliestBestAttempt ==
    CHOOSE i \in ReturnedAttempts :
        /\ \A j \in ReturnedAttempts : qattempts[j].reward <= qattempts[i].reward
        /\ \A j \in ReturnedAttempts :
               qattempts[j].reward = qattempts[i].reward => i <= j

\* C5: refinement early stop: an attempt k <= N whose reward reaches the
\* threshold is the last attempt made (attempts k+1..N never run), the
\* engine stops there and forward returns attempt k's category and
\* priority.
C5_RefineEarlyStop ==
    \A k \in AttemptsAtThreshold :
        /\ k = Len(qattempts)
        /\ k <= N
        /\ qpc = "done"
        /\ refined_out.kind = "return"
        /\ refined_out.category = qattempts[k].outcome.category
        /\ refined_out.priority = qattempts[k].outcome.priority

\* rewards 0.5 then 1.0 with threshold 1.0 and N = 3: stopped after attempt 2
C5_Witness ==
    /\ N = 3
    /\ threshold = 10
    /\ Len(qattempts) = 2
    /\ qattempts[1].outcome.kind = "return"
    /\ qattempts[1].reward = 5
    /\ qattempts[2].outcome.kind = "return"
    /\ qattempts[2].reward = 10
    /\ qpc = "done"
    /\ refined_out.category = qattempts[2].outcome.category

\* C6: refinement fallback-to-best: when no attempt reaches the threshold
\* and the engine has stopped with a result, exactly N attempts were made
\* and the result is that of the attempt with the highest reward, the
\* earliest one among attempts of equal highest reward.
C6_RefineFallbackToBest ==
    (qpc = "done" /\ AttemptsAtThreshold = {} /\ ReturnedAttempts # {}) =>
        /\ Len(qattempts) = N
        /\ refined_out.kind = "return"
        /\ refined_out.category = qattempts[EarliestBestAttempt].outcome.category
        /\ refined_out.priority = qattempts[EarliestBestAttempt].outcome.priority

\* rewards 0.5, 0.0, 0.5 with threshold 1.0: the first attempt is returned,
\* not the different third one of equal reward
C6_Witness ==
    /\ N = 3
    /\ threshold = 10
    /\ qpc = "done"
    /\ Len(qattempts) = 3
    /\ ReturnedAttempts = {1, 2, 3}
    /\ qattempts[1].reward = 5
    /\ qattempts[2].reward = 0
    /\ qattempts[3].reward = 5
    /\ qattempts[3].outcome # qattempts[1].outcome
    /\ refined_out = RefinedPrediction(qattempts[1].outcome)

\* C7: normalization totality: for every pair of raw strings,
\* validate_and_correct returns without raising, with a category that is
\* one of the 8 CATEGORIES and a priority that is one of the 5 PRIORITIES.
C7_NormalizationTotality ==
    (vpc = "done" /\ vraw.kind = "return") =>
        /\ vresult.kind = "return"
        /\ vresult.category \in SeqRange(CATEGORIES)
        /\ vresult.priority \in SeqRange(PRIORITIES)
        /\ Len(CATEGORIES) = 8
        /\ Len(PRIORITIES) = 5

\* an upper-case vocabulary category between blanks, a priority no rule knows
C7_Witness ==
    /\ vpc = "done"
    /\ vraw.kind = "return"
    /\ vraw.category = Blanks(1) \o Upper(sEmail) \o Tabs(1)
    /\ vraw.priority = k_xyz
    /\ vresult.kind = "return"
    /\ vresult.category = sEmail
    /\ vresult.priority = sLow

\* C11: the model_used tag of a result returned by
\* FallbackTicketClassifier.forward names the operation whose output is
\* returned: 'primary' with the primary's category and priority exactly when
\* the primary returned, 'fallback' with the fallback's category and
\* priority exactly when the primary raised and the fallback returned.
C11_ModelUsedNamesTheSource ==
    /\ (Len(fcalls) >= 1 /\ fcalls[1].outcome.kind = "return") =>
           /\ Len(fcalls) = 1
           /\ fallback_out = [kind |-> "return",
                              category |-> fcalls[1].outcome.category,
                              priority |-> fcalls[1].outcome.priority,
                              model_used |-> "primary"]
    /\ (Len(fcalls) = 2 /\ fcalls[2].outcome.kind = "return") =>
           /\ fcalls[1].model = "primary"
           /\ fcalls[1].outcome.kind = "raise"
           /\ fcalls[2].model = "fallback"
           /\ fallback_out = [kind |-> "return",
                              category |-> fcalls[2].outcome.category,
                              priority |-> fcalls[2].outcome.priority,
                              model_used |-> "fallback"]
    /\ fallback_out.kind = "return" =>
           /\ fallback_out.model_used \in {"primary", "fallback"}
           /\ fallback_out.model_used = "primary" <=>
                  fcalls[1].outcome.kind = "return"
           /\ fallback_out.model_used = "fallback" <=>
                  (/\ fcalls[1].outcome.kind = "raise"
                   /\ Len(fcalls) = 2
                   /\ fcalls[2].outcome.kind = "return")

C11_Witness ==
    /\ fpc = "done"
    /\ Len(fcalls) = 2
    /\ fcalls[1].outcome.kind = "raise"
    /\ fcalls[2].outcome = Returned(k_netwrk, sUrgent)
    /\ fallback_out.kind = "return"
    /\ fallback_out.model_used = "fallback"
    /\ fallback_out.category = k_netwrk

\* the members asked so far that returned a result and cast a ballot
Voters ==
    {i \in 1..Len(eoutcomes) : eoutcomes[i].kind = "return" /\ models[i] >= 1}

\* the stripped, lower-cased value member i voted for in a field
VoteOf(i, field) ==
    Lower(Strip(eoutcomes[i][field]))

RECURSIVE WeightSum(_)
WeightSum(members) ==
    IF members = {}
    THEN 0
    ELSE LET i == CHOOSE m \in members : TRUE
         IN  models[i] + WeightSum(members \ {i})

\* the accumulated weight of value v in a field
WeightOf(field, v) ==
    WeightSum({i \in Voters : VoteOf(i, field) = v})

\* the first member, in iteration order, that voted for v
FirstVoter(field, v) ==
    CHOOSE i \in Voters :
        /\ VoteOf(i, field) = v
        /\ \A j \in Voters : VoteOf(j, field) = v => i <= j

\* the value of highest accumulated weight, the first met among equals
HeaviestValue(field) ==
    LET vote == [i \in Voters |-> VoteOf(i, field)]
        values == {vote[i] : i \in Voters}
        weight == [v \in values |-> WeightSum({i \in Voters : vote[i] = v})]
        first == [v \in values |->
                     CHOOSE i \in Voters :
                         /\ vote[i] = v
                         /\ \A j \in Voters : vote[j] = v => i <= j]
    IN  CHOOSE v \in values :
            \A u \in values :
                \/ weight[u] < weight[v]
                \/ /\ weight[u] = weight[v]
                   /\ first[v] <= first[u]

\* C12: separately for category and for priority, the value that wins the
\* vote of EnsembleTicketClassifier.forward is the normalized value with the
\* highest total accumulated weight, and among values of equal highest
\* weight the one first met in member iteration order.
C12_HeaviestValueWins ==
    (epc = "done" /\ ensemble_out.kind = "return") =>
        /\ Lower(ensemble_out.category) = HeaviestValue("category")
        /\ Lower(ensemble_out.priority) = HeaviestValue("priority")

\* weights 1, 2, 1 for Hardware, netwrk, " HARDWARE": 2 against 2, and the
\* value met first wins
C12_Witness ==
    /\ epc = "done"
    /\ models = <<1, 2, 1>>
    /\ eoutcomes = <<Returned(sHardware, sUrgent),
                     Returned(k_netwrk, Upper(sUrgent)),
                     Returned(Blanks(1) \o Upper(sHardware), k_urgnt)>>
    /\ WeightOf("category", Lower(sHardware)) = 2
    /\ WeightOf("category", k_netwrk) = 2
    /\ ensemble_out.kind = "return"
    /\ ensemble_out.category = sHardware

\* C13: category_confidence and priority_confidence are the winning value's
\* accumulated weight over the total number of ballots cast by the members
\* that succeeded (not over the configured member count), so each lies in
\* [0, 1]. A confidence n / d is the pair <<n, d>>.
C13_ConfidenceOverBallotsCast ==
    (epc = "done" /\ ensemble_out.kind = "return") =>
        /\ ensemble_out.category_confidence =
               <<WeightOf("category", HeaviestValue("category")), WeightSum(Voters)>>
        /\ ensemble_out.priority_confidence =
               <<WeightOf("priority", HeaviestValue("priority")), WeightSum(Voters)>>
        /\ \A c \in {ensemble_out.category_confidence,
                     ensemble_out.priority_confidence} :
               0 <= c[1] /\ c[1] <= c[2] /\ c[2] >= 1

\* three members of weight 1 voting Hardware, " HARDWARE", netwrk: Hardware
\* with confidence 2/3
C13_Witness ==
    /\ epc = "done"
    /\ models = <<1, 1, 1>>
    /\ eoutcomes = <<Returned(sHardware, sUrgent),
                     Returned(Blanks(1) \o Upper(sHardware), k_urgnt),
                     Returned(k_netwrk, Upper(sUrgent))>>
    /\ ensemble_out.kind = "return"
    /\ ensemble_out.category = sHardware
    /\ ensemble_out.category_confidence = <<2, 3>>

\* C14: the category and priority returned by
\* EnsembleTicketClassifier.forward are canonical vocabulary values: for
\* every combination of raw member outputs the returned category is in
\* CATEGORIES and the returned priority in PRIORITIES.
C14_EnsembleResultInVocabulary ==
    ensemble_out.kind = "return" => InVocabulary(ensemble_out)

\* the keywords of the category heuristics and of the priority heuristics
CategoryKeywords ==
    {k_hard, k_mater, k_soft, k_logic, k_reseau, k_network, k_compte, k_account}

PriorityKeywords ==
    {k_critic, k_critique, k_urgent, k_high, k_haut, k_medium, k_moyen}

\* a raw field equal to a vocabulary value once stripped and lower-cased
ExactIn(vocabulary, raw) ==
    \E i \in 1..Len(vocabulary) : Lower(Strip(raw)) = Lower(vocabulary[i])

\* a raw field, stripped and lower-cased, holding one of the keywords
HasKeyword(keywords, raw) ==
    \E k \in keywords : Contains(k, Lower(Strip(raw)))

\* a raw field with neither an exact match nor a heuristic match
Unmatched(vocabulary, keywords, raw) ==
    ~ExactIn(vocabulary, raw) /\ ~HasKeyword(keywords, raw)

\* validate_and_correct has returned for the raw pair of vraw
Validated ==
    vpc \in {"done", "again"} /\ vraw.kind = "return" /\ vresult.kind = "return"

\* C16 as stated: a raw field with neither an exact nor a heuristic match is
\* replaced by the fixed default, Application for the category and Medium
\* for the priority, and is_valid is false.
C16_DefaultsApplicationMedium ==
    Validated =>
        /\ Unmatched(CATEGORIES, CategoryKeywords, vraw.category) =>
               (vresult.category = sApplication /\ ~vresult.is_valid)
        /\ Unmatched(PRIORITIES, PriorityKeywords, vraw.priority) =>
               (vresult.priority = sMedium /\ ~vresult.is_valid)

\* C16 amended: a raw field with neither an exact nor a heuristic match is
\* replaced by the fixed default, Application for the category and Low for
\* the priority, and is_valid is false.
C16_DefaultsApplicationLow ==
    Validated =>
        /\ Unmatched(CATEGORIES, CategoryKeywords, vraw.category) =>
               (vresult.category = sApplication /\ ~vresult.is_valid)
        /\ Unmatched(PRIORITIES, PriorityKeywords, vraw.priority) =>
               (vresult.priority = sLow /\ ~vresult.is_valid)

\* a canonical category with a priority that nothing matches
C16_Witness ==
    /\ Validated
    /\ vraw.category = sHardware
    /\ vraw.priority = Blanks(1) \o Upper(k_xyz) \o Tabs(1)
    /\ Unmatched(PRIORITIES, PriorityKeywords, vraw.priority)
    /\ vresult.category = sHardware
    /\ vresult.priority = sLow
    /\ ~vresult.is_valid

\* the vocabulary value a raw field equals once stripped and lower-cased
CanonicalOf(vocabulary, raw) ==
    CHOOSE v \in SeqRange(vocabulary) : Lower(v) = Lower(Strip(raw))

\* C17: a raw field that equals a vocabulary value after strip and
\* lower-casing is returned as that vocabulary value in canonical casing (no
\* heuristic value, no default), and is_valid is false only when the other
\* field matched neither exactly nor by a heuristic.
C17_ExactMatchFirst ==
    Validated =>
        /\ ExactIn(CATEGORIES, vraw.category) =>
               /\ vresult.category = CanonicalOf(CATEGORIES, vraw.category)
               /\ ~vresult.is_valid =>
                      Unmatched(PRIORITIES, PriorityKeywords, vraw.priority)
        /\ ExactIn(PRIORITIES, vraw.priority) =>
               /\ vresult.priority = CanonicalOf(PRIORITIES, vraw.priority)
               /\ ~vresult.is_valid =>
                      Unmatched(CATEGORIES, CategoryKeywords, vraw.category)
        /\ (ExactIn(CATEGORIES, vraw.category) /\ ExactIn(PRIORITIES, vraw.priority))
               => vresult.is_valid

\* both raw fields padded and in upper case, neither a heuristic target
C17_Witness ==
    /\ Validated
    /\ vraw.category = Blanks(1) \o Upper(sInfrastructure) \o Tabs(1)
    /\ vraw.priority = Blanks(1) \o Upper(sLow) \o Tabs(1)
    /\ vresult.category = sInfrastructure
    /\ vresult.priority = sLow
    /\ vresult.is_valid

\* C18: is_valid is true exactly when both raw fields matched the vocabulary
\* after strip and lower-casing; it is false as soon as one raw field was
\* outside the vocabulary, also when a heuristic then corrected that field.
C18_IsValidIffBothInVocabulary ==
    Validated =>
        (vresult.is_valid <=>
            (ExactIn(CATEGORIES, vraw.category) /\ ExactIn(PRIORITIES, vraw.priority)))

\* C19 as stated: validate_and_correct applied to the category and priority
\* it returned yields the same triple (category, priority, is_valid) as the
\* first application.
C19_ValidatorIdempotence ==
    vpc = "again" => vagain = vresult

\* C19 amended: validate_and_correct applied to the category and priority it
\* returned yields the same category and the same priority as the first
\* application, with is_valid true; the triple is the first one exactly when
\* the first application returned is_valid true.
C19_SecondPassKeepsValuesAndIsValid ==
    vpc = "again" =>
        /\ vagain.kind = "return"
        /\ vagain.category = vresult.category
        /\ vagain.priority = vresult.priority
        /\ vagain.is_valid
        /\ (vagain = vresult) <=> vresult.is_valid

\* a pair replaced by the defaults and flagged, then validated again
C19_Witness ==
    /\ vpc = "again"
    /\ Unmatched(CATEGORIES, CategoryKeywords, vraw.category)
    /\ Unmatched(PRIORITIES, PriorityKeywords, vraw.priority)
    /\ ~vresult.is_valid
    /\ vagain.kind = "return"
    /\ vagain.category = sApplication
    /\ vagain.priority = sLow
    /\ vagain.is_valid

\* forward has returned for the raw pair ("netwrk", "urgnt")
NetwrkUrgnt ==
    Validated /\ vraw = Returned(k_netwrk, k_urgnt)

\* C20 as stated: for the raw pair ("netwrk", "urgnt") forward returns
\* category Network, priority Urgent and is_valid false.
C20_NetwrkUrgntCorrected ==
    NetwrkUrgnt =>
        /\ vresult.category = sNetwork
        /\ vresult.priority = sUrgent
        /\ ~vresult.is_valid

\* C20 amended: for the raw pair ("netwrk", "urgnt"), which holds no
\* heuristic keyword, forward returns the defaults, category Application and
\* priority Low, and is_valid false.
C20_NetwrkUrgntDefaulted ==
    NetwrkUrgnt =>
        /\ vresult.category = sApplication
        /\ vresult.priority = sLow
        /\ ~vresult.is_valid

\* forward has returned for ("netwrk", "urgnt")
C20_Witness ==
    /\ vpc = "done"
    /\ NetwrkUrgnt
    /\ ~HasKeyword(CategoryKeywords, k_netwrk)
    /\ ~HasKeyword(PriorityKeywords, k_urgnt)
    /\ vresult.kind = "return"

\* the deadlines a caller may put on one call of forward (clock ticks from
\* the entry into forward)
Deadlines ==
    {1, 2, 3}

\* C21: under a caller-level deadline on the whole call, no attempt of
\* RetryTicketClassifier.forward is started once the deadline is exceeded,
\* no backoff sleep continues past it, and a call that ends after the
\* deadline ends with a timeout-kind error.
C21_DeadlineHonoured ==
    \A deadline \in Deadlines :
        /\ \A i \in 1..Len(rcalls) : rcalls[i].start <= deadline
        /\ \A i \in 1..Len(sleeps) : sleeps[i].to <= deadline
        /\ (rpc = "done" /\ clock > deadline) =>
               /\ retry_out.kind = "raise"
               /\ retry_out.error.type = "TimeoutError"

\* the order of n members with members a and b exchanged
Swap(n, a, b) ==
    [i \in 1..n |-> IF i = a THEN b ELSE IF i = b THEN a ELSE i]

\* the orders n members can be asked in that differ from the order of
\* self.models by at most one exchange of two members. Every list of
\* weights and every outcome of every member is explored, so what holds
\* across one exchange in every explored run holds across any sequence of
\* exchanges, that is across every order.
Orders(n) ==
    {Swap(n, q[1], q[2]) : q \in (1..n) \X (1..n)}

\* the predictions list when the members, with the outcomes they had, are
\* asked in the given order
RECURSIVE TallyIn(_)
TallyIn(order) ==
    IF order = <<>>
    THEN <<>>
    ELSE LET i == Head(order)
         IN  (IF eoutcomes[i].kind = "return"
              THEN Ballots(eoutcomes[i], models[i])
              ELSE <<>>) \o TallyIn(Tail(order))

\* the vote when the members are asked in the given order
VoteIn(order) ==
    EnsembleVote(TallyIn(order), Len(models))

\* one value of the field is strictly heavier than every other
Untied(field) ==
    LET vote == [i \in Voters |-> VoteOf(i, field)]
        values == {vote[i] : i \in Voters}
        weight == [v \in values |-> WeightSum({i \in Voters : vote[i] = v})]
    IN  \E v \in values : \A u \in values \ {v} : weight[u] < weight[v]

\* the vote of EnsembleTicketClassifier.forward has been returned
Voted ==
    epc = "done" /\ ensemble_out.kind = "return"

\* C22 as stated: for fixed members, outcomes and weights, the result of
\* the vote (winning category, winning priority, both confidences) is the
\* same for every order in which the members are asked and tallied.
C22_VoteSameInEveryOrder ==
    Voted => \A order \in Orders(Len(models)) : VoteIn(order) = ensemble_out

\* C22 amended: for fixed members, outcomes and weights, both confidences
\* are the same for every order in which the members are asked and tallied,
\* and so is the winning value of a field in which one value is strictly
\* heavier than every other; values tied for the highest weight are decided
\* by the order.
C22_VoteSameInEveryOrderUnlessTied ==
    Voted =>
        LET cuntied == Untied("category")
            puntied == Untied("priority")
        IN  \A order \in Orders(Len(models)) :
                LET vote == VoteIn(order)
                IN  /\ vote.category_confidence = ensemble_out.category_confidence
                    /\ vote.priority_confidence = ensemble_out.priority_confidence
                    /\ cuntied => vote.category = ensemble_out.category
                    /\ puntied => vote.priority = ensemble_out.priority

\* weights 1, 2, 1 for Hardware, netwrk, " HARDWARE": the categories tie 2
\* against 2 and the member asked first decides; urgent wins the priority
\* 3 against 1 in every order
C22_Witness ==
    /\ Voted
    /\ models = <<1, 2, 1>>
    /\ eoutcomes = <<Returned(sHardware, sUrgent),
                     Returned(k_netwrk, Upper(sUrgent)),
                     Returned(Blanks(1) \o Upper(sHardware), k_urgnt)>>
    /\ ~Untied("category")
    /\ Untied("priority")
    /\ ensemble_out.category = sHardware
    /\ VoteIn(<<2, 1, 3>>).category = k_netwrk
    /\ ensemble_out.priority = sUrgent
    /\ VoteIn(<<3, 2, 1>>).priority = sUrgent
    /\ VoteIn(<<3, 2, 1>>).category_confidence = <<2, 4>>

\* a field of the scored prediction is present and equals a vocabulary
\* value once stripped and lower-cased
FieldValid(vocabulary, name) ==
    /\ name \in DOMAIN mprediction
    /\ ExactIn(vocabulary, mprediction[name])

\* C23: the validity reward is 0.5 for each field of the prediction that is
\* present and in the vocabulary after strip and lower-casing and 0.0 for a
\* field that is absent or out of vocabulary; it is one of 0.0, 0.5, 1.0 and
\* is 1.0 exactly when both fields are in the vocabulary. (Tenths.)
C23_RewardIsHalfPerValidField ==
    mpc = "scored" =>
        /\ score = (IF FieldValid(CATEGORIES, "category") THEN HalfScore ELSE 0)
                   + (IF FieldValid(PRIORITIES, "priority") THEN HalfScore ELSE 0)
        /\ score \in {0, HalfScore, 2 * HalfScore}
        /\ score = 2 * HalfScore <=>
               (FieldValid(CATEGORIES, "category") /\ FieldValid(PRIORITIES, "priority"))

\* a prediction without a category whose priority is padded and in upper
\* case is scored 0.5
C23_Witness ==
    /\ mpc = "scored"
    /\ ~hasattr(mprediction, "category")
    /\ hasattr(mprediction, "priority")
    /\ mprediction.priority = Blanks(1) \o Upper(sUrgent) \o Tabs(1)
    /\ score = HalfScore

\* the invocations of one model's predictor made so far
CallsOf(model) ==
    {i \in 1..Len(fcalls) : fcalls[i].model = model}

\* C24: in one call of FallbackTicketClassifier.forward the primary
\* operation is invoked exactly once and first, the fallback operation at
\* most once and only after the primary has failed, and neither is invoked
\* again after its own failure.
C24_NoRetryInsideFallback ==
    /\ Cardinality(CallsOf("primary")) <= 1
    /\ Cardinality(CallsOf("fallback")) <= 1
    /\ fcalls # <<>> => fcalls[1].model = "primary"
    /\ CallsOf("fallback") # {} =>
           (Len(fcalls) = 2 /\ fcalls[2].model = "fallback"
            /\ fcalls[1].outcome.kind = "raise")
    /\ (fcalls # <<>> /\ fcalls[1].outcome.kind = "return") => Len(fcalls) = 1
    /\ fpc = "done" =>
           /\ Cardinality(CallsOf("primary")) = 1
           /\ fcalls[Len(fcalls)].outcome.kind = "raise" =>
                  (Len(fcalls) = 2 /\ fallback_out.kind = "raise")

\* both models failed: one invocation of each, the primary first
C24_Witness ==
    /\ fpc = "done"
    /\ Len(fcalls) = 2
    /\ fcalls[1].model = "primary" /\ fcalls[1].outcome.kind = "raise"
    /\ fcalls[2].model = "fallback" /\ fcalls[2].outcome.kind = "raise"
    /\ fallback_out.kind = "raise"

\* the heuristic rules in the order the claim gives them: the keywords of a
\* rule and the vocabulary value it maps to
CategoryRules ==
    <<[keywords |-> {k_hard, k_mater}, value |-> sHardware],
      [keywords |-> {k_soft, k_logic}, value |-> sSoftware],
      [keywords |-> {k_reseau, k_network}, value |-> sNetwork],
      [keywords |-> {k_compte, k_account}, value |-> sAccount]>>

PriorityRules ==
    <<[keywords |-> {k_critic, k_critique}, value |-> sCritical],
      [keywords |-> {k_urgent}, value |-> sUrgent],
      [keywords |-> {k_high, k_haut}, value |-> sHigh],
      [keywords |-> {k_medium, k_moyen}, value |-> sMedium]>>

\* the rules a raw field matches
MatchingRules(rules, raw) ==
    {i \in 1..Len(rules) : HasKeyword(rules[i].keywords, raw)}

\* the value of the earliest rule a raw field matches
EarliestRuleValue(rules, raw) ==
    LET hits == MatchingRules(rules, raw)
    IN  rules[CHOOSE i \in hits : \A j \in hits : i <= j].value

\* C25: a raw field with no exact vocabulary match that holds keywords of
\* one or several heuristic rules is mapped to the value of the earliest of
\* these rules, in the order Hardware, Software, Network, Account for the
\* category and Critical, Urgent, High, Medium for the priority.
C25_FirstMatchingRuleDecides ==
    Validated =>
        /\ (~ExactIn(CATEGORIES, vraw.category)
            /\ MatchingRules(CategoryRules, vraw.category) # {}) =>
               vresult.category = EarliestRuleValue(CategoryRules, vraw.category)
        /\ (~ExactIn(PRIORITIES, vraw.priority)
            /\ MatchingRules(PriorityRules, vraw.priority) # {}) =>
               vresult.priority = EarliestRuleValue(PriorityRules, vraw.priority)

\* "soft hard" holds the keywords of the Software and Hardware rules and
\* becomes Hardware; "urgent critic" becomes Critical
C25_Witness ==
    /\ Validated
    /\ vraw.category = k_soft \o <<" ">> \o k_hard
    /\ vraw.priority = k_urgent \o <<" ">> \o k_critic
    /\ MatchingRules(CategoryRules, vraw.category) = {1, 2}
    /\ MatchingRules(PriorityRules, vraw.priority) = {1, 2}
    /\ vresult.category = sHardware
    /\ vresult.priority = sCritical

\* the members asked so far that returned a result
Succeeded ==
    {i \in 1..Len(eoutcomes) : eoutcomes[i].kind = "return"}

\* C26: each member that succeeds with weight w adds exactly w ballots, each
\* holding its stripped and lower-cased category and priority, so values
\* differing only in case or surrounding whitespace count as one value; a
\* failed member adds none, and the ballots per field number the sum of the
\* weights of the members that succeeded.
C26_WeightBallotsPerSuccess ==
    LET ballot == [i \in Succeeded |->
                      [category |-> VoteOf(i, "category"),
                       priority |-> VoteOf(i, "priority")]]
        before == [i \in Succeeded |-> WeightSum({j \in Succeeded : j < i})]
    IN  /\ Len(predictions) = WeightSum(Succeeded)
        /\ \A i \in Succeeded :
               \A k \in 1..models[i] : predictions[before[i] + k] = ballot[i]
        /\ \A i \in Succeeded :
               /\ Count([k \in 1..Len(predictions) |-> predictions[k].category],
                        ballot[i].category)
                      = WeightSum({j \in Succeeded :
                                      ballot[j].category = ballot[i].category})
               /\ Count([k \in 1..Len(predictions) |-> predictions[k].priority],
                        ballot[i].priority)
                      = WeightSum({j \in Succeeded :
                                      ballot[j].priority = ballot[i].priority})

\* weights 2, 1, 1: Hardware, a failure, " HARDWARE" make three ballots for
\* hardware
C26_Witness ==
    /\ models = <<2, 1, 1>>
    /\ Len(eoutcomes) = 3
    /\ eoutcomes[1] = Returned(sHardware, sUrgent)
    /\ eoutcomes[2].kind = "raise"
    /\ eoutcomes[3] = Returned(Blanks(1) \o Upper(sHardware), k_urgnt)
    /\ Len(predictions) = 3
    /\ \A k \in 1..3 : predictions[k].category = Lower(sHardware)
    /\ predictions[3].priority = k_urgnt

\* the attempts made so far that failed
FailedAttempts ==
    {rcalls[i].attempt : i \in {j \in 1..Len(rcalls) : rcalls[j].outcome.kind = "raise"}}

\* the reports printed for attempt number a
ReportsOf(a) ==
    {i \in 1..Len(reports) : reports[i].attempt = a}

\* C27 as stated: every failed attempt 1..max_retries of
\* RetryTicketClassifier.forward produces one report, with its attempt
\* number and the computed delay, before the backoff sleep that follows it.
C27_EveryFailedAttemptReported ==
    /\ \A a \in FailedAttempts : Cardinality(ReportsOf(a)) = 1
    /\ Len(sleeps) <= Len(reports)

\* C27 amended: every failed attempt but the last allowed one (attempts
\* 1..max_retries - 1) produces one report, with its attempt number, its
\* error and the computed delay initial_delay * 2^(attempt - 1), before the
\* backoff sleep that follows it, which lasts that delay; the failure of
\* attempt max_retries is not reported.
C27_FailedAttemptsButLastReported ==
    /\ \A a \in FailedAttempts :
           Cardinality(ReportsOf(a)) = IF a < max_retries THEN 1 ELSE 0
    /\ \A i \in 1..Len(reports) :
           /\ reports[i].attempt = i
           /\ reports[i].attempt \in FailedAttempts
           /\ reports[i].error = rcalls[i].outcome.error
           /\ reports[i].delay = initial_delay * 2 ^ (i - 1)
           /\ reports[i].at = rcalls[i].end
    /\ Len(sleeps) <= Len(reports)
    /\ \A j \in 1..Len(sleeps) :
           /\ sleeps[j].after = reports[j].attempt
           /\ sleeps[j].from >= reports[j].at
           /\ sleeps[j].to - sleeps[j].from = reports[j].delay

\* three attempts allowed, three failures: two reports, two sleeps, and the
\* third failure ends the call unreported
C27_Witness ==
    /\ rpc = "done"
    /\ max_retries = 3
    /\ initial_delay = 1
    /\ FailedAttempts = {1, 2, 3}
    /\ Len(reports) = 2
    /\ reports[2].attempt = 2 /\ reports[2].delay = 2
    /\ Len(sleeps) = 2
    /\ ReportsOf(3) = {}
    /\ retry_out.kind = "raise"

\* C28: for every raw pair produced by the underlying classifier,
\* ValidatedClassifier.forward returns a category that is a member of
\* CATEGORIES and a priority that is a member of PRIORITIES: an
\* in-vocabulary raw value (whatever its case and surrounding whitespace)
\* in canonical casing, an out-of-vocabulary one replaced by Application or
\* Medium.
C28_ValidatedClassifierInVocabulary ==
    (mpc = "validated" /\ mresult.kind = "return") =>
        /\ InVocabulary(mresult)
        /\ mresult.category = IF ExactIn(CATEGORIES, mprediction.category)
                              THEN CanonicalOf(CATEGORIES, mprediction.category)
                              ELSE sApplication
        /\ mresult.priority = IF ExactIn(PRIORITIES, mprediction.priority)
                              THEN CanonicalOf(PRIORITIES, mprediction.priority)
                              ELSE sMedium

\* C29: with max_retries <= 0, RetryTicketClassifier.forward never invokes
\* the classification operation, never sleeps and never returns a result;
\* it raises the terminal failure at once, with no underlying cause
\* (last_error is None).
C29_NoAttemptWithoutRetries ==
    (rpc # "idle" /\ max_retries <= 0) =>
        /\ rcalls = <<>>
        /\ sleeps = <<>>
        /\ reports = <<>>
        /\ clock = 0
        /\ last_error = None
        /\ retry_out.kind # "return"
        /\ rpc = "done" =>
               /\ retry_out.kind = "raise"
               /\ retry_out.attempts = max_retries
               /\ retry_out.error = None

\* forward has ended for a classifier built with max_retries = 0
C29_Witness ==
    /\ rpc = "done"
    /\ max_retries = 0
    /\ rcalls = <<>>
    /\ sleeps = <<>>
    /\ retry_out.kind = "raise"
    /\ retry_out.error = None

\* a prediction or result whose category and priority both equal a
\* vocabulary value once stripped and lower-cased
BothInVocabulary(r) ==
    ExactIn(CATEGORIES, r.category) /\ ExactIn(PRIORITIES, r.priority)

\* the attempts made so far that returned a prediction with both fields in
\* the vocabulary
FullyValidAttempts ==
    {i \in ReturnedAttempts : BothInVocabulary(qattempts[i].outcome)}

\* C30: a RefinedTicketClassifier built with threshold = 1.0 stops at the
\* first attempt whose category and priority are both in the vocabulary and
\* returns it; whenever it returns a result with a category or priority
\* outside the vocabulary, all N attempts were made and none of them had
\* both fields in the vocabulary.
C30_OutOfVocabularyOnlyAfterAllAttempts ==
    threshold = 2 * HalfScore =>
        /\ \A i \in FullyValidAttempts :
               /\ i = Len(qattempts)
               /\ qpc = "done"
               /\ refined_out = RefinedPrediction(qattempts[i].outcome)
        /\ (qpc = "done" /\ refined_out.kind = "return"
            /\ ~BothInVocabulary(refined_out)) =>
               /\ Len(qattempts) = N
               /\ FullyValidAttempts = {}

\* three attempts with threshold 1.0, none with both fields in the
\* vocabulary: the result returned has a category outside it
C30_Witness ==
    /\ qpc = "done"
    /\ threshold = 2 * HalfScore
    /\ N = 3
    /\ Len(qattempts) = 3
    /\ ReturnedAttempts # {}
    /\ FullyValidAttempts = {}
    /\ refined_out.kind = "return"
    /\ ~ExactIn(CATEGORIES, refined_out.category)

====
